---- MODULE Spec2Model ----
(***************************************************************************)
(* A model of src/src/chat_statistics/stats.py: the ChatStatistics object  *)
(* of a Telegram export, its four public operations and the helpers they   *)
(* call.                                                                   *)
(*                                                                         *)
(* Strings are sequences of one-character strings, so that substring       *)
(* tests, sentence splitting and word tokenizing are computed and not      *)
(* assumed.  The two Persian markers and the Arabic question mark are      *)
(* spelled with ASCII names of their letters.                              *)
(*                                                                         *)
(* Python's None, a missing key and a falsy value are one value here       *)
(* wherever the code cannot tell them apart: "None" for from_id and from,  *)
(* 0 for reply_to_message_id (line 145 tests falsiness; message ids of an  *)
(* export start at 1).                                                     *)
(***************************************************************************)
EXTENDS Integers, Sequences, FiniteSets

VARIABLES chat_data, loaded, last

vars == <<chat_data, loaded, last>>

\* ------------------------------------------------------------------ bounds

\* the longest transcript of each family of initial transcripts, and the
\* largest top_n
MaxMsgs == 3
MaxTalkMsgs == 5
MaxTextMsgs == 2
MaxReplyMsgs == 2
MaxTopN == 3

\* ------------------------------------------------------------ python values

None == "None"
NoReply == 0

\* ------------------------------------------------------------------ strings

SP == " "
NL == "\n"

\* the four markers of lines 107 and 134: '?', the Arabic question mark,
\* 'chera' (why) and 'aya' (is it that)
Markers ==
    { <<"?">>, <<"aqm">>, <<"che", "re", "alef">>, <<"alefmad", "ye", "alef">> }

\* Python's `m in s` for strings
Contains(s, m) ==
    \E i \in 1..(Len(s) - Len(m) + 1) : SubSeq(s, i, i + Len(m) - 1) = m

HasMarker(sentence) == \E m \in Markers : Contains(sentence, m)

\* str.strip() for the whitespace of the model
RECURSIVE LStrip(_)
LStrip(s) ==
    IF s # <<>> /\ Head(s) \in {SP, NL} THEN LStrip(Tail(s)) ELSE s

RECURSIVE RStrip(_)
RStrip(s) ==
    IF s # <<>> /\ s[Len(s)] \in {SP, NL} THEN RStrip(SubSeq(s, 1, Len(s) - 1)) ELSE s

Strip(s) == RStrip(LStrip(s))

\* hazm.sent_tokenize: the pattern ([!.?<>]+)[ \n]+ ends a sentence after a run
\* of terminators that whitespace follows; sentences are stripped and the empty
\* ones dropped.
Terminators == {"!", ".", "?", "aqm"}

RECURSIVE SentSplit(_, _, _)
SentSplit(s, cur, acc) ==
    IF s = <<>> THEN Append(acc, cur)
    ELSE IF Head(s) \in Terminators /\ Len(s) >= 2 /\ s[2] \in {SP, NL}
         THEN SentSplit(LStrip(Tail(s)), <<>>, Append(acc, Append(cur, Head(s))))
         ELSE SentSplit(Tail(s), Append(cur, Head(s)), acc)

sent_tokenize(s) ==
    LET parts == SentSplit(s, <<>>, <<>>)
    IN  SelectSeq([i \in 1..Len(parts) |-> Strip(parts[i])], LAMBDA p : p # <<>>)

\* hazm.word_tokenize: a run of [aqm ! ?] and each '.' is set apart by spaces,
\* then the text is split at whitespace and the empty pieces dropped.
RunPunct == {"?", "!", "aqm"}

RECURSIVE WordSplit(_, _, _)
WordSplit(s, cur, acc) ==
    LET flush == IF cur = <<>> THEN acc ELSE Append(acc, cur)
    IN  IF s = <<>> THEN flush
        ELSE IF Head(s) \in {SP, NL} THEN WordSplit(Tail(s), <<>>, flush)
        ELSE IF Head(s) = "." THEN WordSplit(Tail(s), <<>>, Append(flush, <<".">>))
        ELSE IF Head(s) \in RunPunct
             THEN IF cur # <<>> /\ cur[1] \in RunPunct
                  THEN WordSplit(Tail(s), Append(cur, Head(s)), acc)
                  ELSE WordSplit(Tail(s), <<Head(s)>>, flush)
        ELSE IF cur # <<>> /\ cur[1] \in RunPunct
             THEN WordSplit(Tail(s), <<Head(s)>>, flush)
             ELSE WordSplit(Tail(s), Append(cur, Head(s)), acc)

word_tokenize(s) == WordSplit(s, <<>>, <<>>)

\* ' '.join(tokens)
RECURSIVE JoinSp(_)
JoinSp(tokens) ==
    IF tokens = <<>> THEN <<>>
    ELSE IF Len(tokens) = 1 THEN tokens[1]
    ELSE tokens[1] \o <<SP>> \o JoinSp(Tail(tokens))

\* self.stop_words (line 30): the words of data/stop_words.txt; one word here
stop_words == { <<"o", "f">> }

\* ------------------------------------------------------------ the transcript

\* msg['text'] is a str or a list of runs; a run of a list is a str or a dict
\* with 'type' and 'text' (lines 46, 51, 53, 57, 89)
StrText(s) == [isstr |-> TRUE, s |-> s, runs |-> <<>>]
ListText(runs) == [isstr |-> FALSE, s |-> <<>>, runs |-> runs]
StrRun(s) == [type |-> "str", text |-> s]
Span(type, s) == [type |-> type, text |-> s]

\* rebuild_msg (lines 83-94): res_msg = ' '.join([res_msg, item text]) from ''
RECURSIVE RebuildFrom(_, _)
RebuildFrom(res_msg, runs) ==
    IF runs = <<>> THEN res_msg
    ELSE RebuildFrom(res_msg \o <<SP>> \o Head(runs).text, Tail(runs))

rebuild_msg(msg) == RebuildFrom(<<>>, msg.text.runs)

\* lines 102-103 and 129-130: msg['text'] = self.rebuild_msg(msg) unless a str
Rebuilt(msg) ==
    IF msg.text.isstr THEN msg ELSE [msg EXCEPT !.text = StrText(rebuild_msg(msg))]

\* lines 105-109 and 132-137: some sentence of the text has a marker
SomeSentenceHasMarker(s) ==
    LET sentences == sent_tokenize(s)
    IN  \E k \in 1..Len(sentences) : HasMarker(sentences[k])

\* id_and_name (lines 112-118): the last 'from' of each truthy from_id
RECURSIVE IdAndNameFrom(_, _)
IdAndNameFrom(id_and_name, msgs) ==
    IF msgs = <<>> THEN id_and_name
    ELSE LET msg == Head(msgs)
         IN  IF msg.from_id = None
             THEN IdAndNameFrom(id_and_name, Tail(msgs))
             ELSE IdAndNameFrom(
                      [k \in DOMAIN id_and_name \cup {msg.from_id} |->
                          IF k = msg.from_id THEN msg.from ELSE id_and_name[k]],
                      Tail(msgs))

id_and_name(msgs) == IdAndNameFrom(<<>>, msgs)

\* ------------------------------------------------- Counter and most_common

\* Counter(users): one (id, count) pair per id, in the order of first occurrence
RECURSIVE CounterFrom(_, _)
CounterFrom(pairs, users) ==
    IF users = <<>> THEN pairs
    ELSE LET u == Head(users)
             at == {i \in 1..Len(pairs) : pairs[i].key = u}
         IN  IF at = {}
             THEN CounterFrom(Append(pairs, [key |-> u, count |-> 1]), Tail(users))
             ELSE CounterFrom(
                      [i \in 1..Len(pairs) |->
                          IF i \in at THEN [pairs[i] EXCEPT !.count = @ + 1] ELSE pairs[i]],
                      Tail(users))

Counter(users) == CounterFrom(<<>>, users)

\* sorted(pairs, key=count, reverse=True): stable, so equal counts keep the
\* order of first occurrence
RECURSIVE SortedDesc(_)
SortedDesc(pairs) ==
    IF pairs = <<>> THEN <<>>
    ELSE LET best == CHOOSE i \in 1..Len(pairs) :
                        /\ \A j \in 1..Len(pairs) : pairs[j].count <= pairs[i].count
                        /\ \A j \in 1..(i - 1) : pairs[j].count < pairs[i].count
         IN  <<pairs[best]>> \o
             SortedDesc(SubSeq(pairs, 1, best - 1) \o SubSeq(pairs, best + 1, Len(pairs)))

\* Counter(users).most_common(top_n): the top_n first pairs of the sorted list
most_common(users, top_n) ==
    LET sorted == SortedDesc(Counter(users))
    IN  SubSeq(sorted, 1, IF top_n < Len(sorted) THEN top_n ELSE Len(sorted))

\* {user_names[k]: v for k, v in top_users.items()} (lines 157, 179): a dict
\* keyed by display name, in insertion order; a name met again keeps its place
\* and takes the later value
RECURSIVE NamedFrom(_, _, _)
NamedFrom(f_top_users, top_users, user_names) ==
    IF top_users = <<>> THEN f_top_users
    ELSE LET name == user_names[Head(top_users).key]
             v == Head(top_users).count
             at == {i \in 1..Len(f_top_users) : f_top_users[i].key = name}
         IN  IF at = {}
             THEN NamedFrom(Append(f_top_users, [key |-> name, count |-> v]),
                            Tail(top_users), user_names)
             ELSE NamedFrom(
                      [i \in 1..Len(f_top_users) |->
                          IF i \in at THEN [key |-> name, count |-> v] ELSE f_top_users[i]],
                      Tail(top_users), user_names)

f_top_users(top_users, user_names) == NamedFrom(<<>>, top_users, user_names)

\* --------------------------------------------------------- the operations

\* what the last call returned or raised, and what it left behind:
\*   flag         msg_has_question's return value, "True" or "None"
\*   ranking      the dict a ranking operation returned, in iteration order
\*   credited     the indices of the messages whose sender the pass appended
\*   err, errAt   the exception raised ("none": it returned) and the index of
\*                the message being processed when it was raised (0: after
\*                the loop)
\*   text_content the word-cloud text of lines 44-62
NoCall ==
    [op |-> "none", arg |-> 0, err |-> "none", errAt |-> 0, flag |-> "None",
     ranking |-> <<>>, credited |-> <<>>, text_content |-> <<>>]

\* msg_has_question (lines 97-109): True at the first sentence with a marker;
\* falling off the loop returns None
msg_has_question_ret(msg) ==
    IF SomeSentenceHasMarker(Rebuilt(msg).text.s) THEN "True" ELSE "None"

\* lines 126-137: is_question = defaultdict(bool), True for the ids of the
\* messages with a marked sentence
is_question(msgs) ==
    {msgs[i].id : i \in {j \in 1..Len(msgs) : SomeSentenceHasMarker(Rebuilt(msgs[j]).text.s)}}

\* the test of line 148 lost: every reply counts as a reply to a question
IsQuestionAt_Always(isq, id) == TRUE

\* line 148: is_question[msg['reply_to_message_id']]; a defaultdict(bool) gives
\* False for an id it has not
IsQuestionAt(isq, id) == id \in isq

\* lines 144-154: the second pass of get_top_answering_users, from message i on
RECURSIVE AnswerPass(_, _, _, _, _, _)
AnswerPass(msgs, isq, user_names, i, users, credited) ==
    IF i > Len(msgs) THEN [err |-> "none", errAt |-> 0, users |-> users, credited |-> credited]
    ELSE LET msg == msgs[i]
         IN  IF msg.reply_to_message_id = NoReply
             THEN AnswerPass(msgs, isq, user_names, i + 1, users, credited)
             ELSE IF ~IsQuestionAt(isq, msg.reply_to_message_id)
             THEN AnswerPass(msgs, isq, user_names, i + 1, users, credited)
             ELSE IF msg.from_id \notin DOMAIN user_names
             THEN [err |-> "KeyError", errAt |-> i, users |-> users, credited |-> credited]
             ELSE IF user_names[msg.from_id] = None
             THEN AnswerPass(msgs, isq, user_names, i + 1, users, credited)
             ELSE AnswerPass(msgs, isq, user_names, i + 1,
                             Append(users, msg.from_id), Append(credited, i))

\* lines 171-177: the pass of get_most_talkative_users, from message i on
RECURSIVE TalkPass(_, _, _, _, _)
TalkPass(msgs, user_names, i, users, credited) ==
    IF i > Len(msgs) THEN [err |-> "none", errAt |-> 0, users |-> users, credited |-> credited]
    ELSE LET msg == msgs[i]
         IN  IF msg.from_id \notin DOMAIN user_names \/ user_names[msg.from_id] = None
             THEN TalkPass(msgs, user_names, i + 1, users, credited)
             ELSE TalkPass(msgs, user_names, i + 1,
                           Append(users, msg.from_id), Append(credited, i))

\* lines 155-159 and 177-181: top_users is bound only by an iteration that
\* appended; line 157 (179) reads it after the loop
RankingOf(op, pass, user_names, top_n) ==
    IF pass.err # "none"
    THEN [NoCall EXCEPT !.op = op, !.arg = top_n, !.err = pass.err,
                        !.errAt = pass.errAt, !.credited = pass.credited]
    ELSE IF pass.users = <<>>
    THEN [NoCall EXCEPT !.op = op, !.arg = top_n, !.err = "UnboundLocalError"]
    ELSE [NoCall EXCEPT !.op = op, !.arg = top_n, !.credited = pass.credited,
                        !.ranking = f_top_users(most_common(pass.users, top_n), user_names)]

\* lines 126-154 of get_top_answering_users: both passes
AnswerOutcome(msgs) ==
    AnswerPass(msgs, is_question(msgs), id_and_name(msgs), 1, <<>>, <<>>)

\* lines 169-176 of get_most_talkative_users
TalkOutcome(msgs) == TalkPass(msgs, id_and_name(msgs), 1, <<>>, <<>>)

\* lines 47-49, 54-56, 60-62: "\n " and the words that are not stop words
Piece(s) ==
    <<NL, SP>> \o JoinSp(SelectSeq(word_tokenize(s), LAMBDA item : item \notin stop_words))

\* line 57: the span types generate_word_cloud leaves out
DroppedTypes == {"link", "hashtag", "mention", "phone", "email"}

\* lines 52-62: the runs of a list text
RECURSIVE RunsContent(_)
RunsContent(runs) ==
    IF runs = <<>> THEN <<>>
    ELSE LET sub_1 == Head(runs)
         IN  (IF sub_1.type = "str" THEN Piece(sub_1.text)
              ELSE IF sub_1.type \in DroppedTypes THEN <<>>
              ELSE Piece(sub_1.text)) \o RunsContent(Tail(runs))

\* lines 44-62: text_content over the messages
RECURSIVE TextContent(_)
TextContent(msgs) ==
    IF msgs = <<>> THEN <<>>
    ELSE LET msg == Head(msgs)
         IN  (IF msg.text.isstr THEN Piece(msg.text.s) ELSE RunsContent(msg.text.runs))
             \o TextContent(Tail(msgs))

\* ------------------------------------------------------------------ actions

TopNs == 0..MaxTopN

\* msg_has_question(msg) on a message of the transcript (lines 97-109)
MsgHasQuestion ==
    \E i \in 1..Len(chat_data) :
        /\ chat_data' = [chat_data EXCEPT ![i] = Rebuilt(chat_data[i])]
        /\ last' = [NoCall EXCEPT !.op = "msg_has_question", !.arg = i,
                                  !.flag = msg_has_question_ret(chat_data[i])]
        /\ UNCHANGED loaded

\* get_top_answering_users(top_n) (lines 120-159); the first loop has rebuilt
\* every text before anything can raise
GetTopAnsweringUsers ==
    LET pass == AnswerOutcome(chat_data)
        user_names == id_and_name(chat_data)
    IN  \E top_n \in TopNs :
            /\ chat_data' = [i \in 1..Len(chat_data) |-> Rebuilt(chat_data[i])]
            /\ last' = RankingOf("get_top_answering_users", pass, user_names, top_n)
            /\ UNCHANGED loaded

\* get_most_talkative_users(top_n) (lines 161-181)
GetMostTalkativeUsers ==
    LET pass == TalkOutcome(chat_data)
        user_names == id_and_name(chat_data)
    IN  \E top_n \in TopNs :
            /\ last' = RankingOf("get_most_talkative_users", pass, user_names, top_n)
            /\ UNCHANGED <<chat_data, loaded>>

\* generate_word_cloud (lines 33-80), up to the text handed to the normalizer
\* and the renderer
GenerateWordCloud ==
    /\ last' = [NoCall EXCEPT !.op = "generate_word_cloud",
                              !.text_content = TextContent(chat_data)]
    /\ UNCHANGED <<chat_data, loaded>>

Next ==
    \/ MsgHasQuestion
    \/ GetTopAnsweringUsers
    \/ GetMostTalkativeUsers
    \/ GenerateWordCloud

\* ------------------------------------------------------- initial transcripts

\* (from_id, from) of a message: a service message without sender, three
\* accounts of which two share a display name, and an account whose name the
\* export gives as null (a deleted account)
Sender(from_id, from) == [from_id |-> from_id, from |-> from]
NoSender == Sender(None, None)
Ann1 == Sender("user1", "Ann")
Bob2 == Sender("user2", "Bob")
Ann3 == Sender("user3", "Ann")
Deleted2 == Sender("user2", None)

T_Plain == StrText(<<"h", "i">>)
T_Question == StrText(<<"h", "i", "?">>)
T_Empty == StrText(<<>>)
T_TwoSentences == StrText(<<"h", "i", ".", SP, "o", "f", "?">>)
T_Why == StrText(<<"che", "re", "alef">>)
T_Link == ListText(<<StrRun(<<"o", "f", SP, "h", "i">>), Span("link", <<"u", "r", "l">>)>>)
T_LinkQuery == ListText(<<Span("mention", <<"a", "t">>), Span("bold", <<"h", "i">>),
                          Span("link", <<"u", "r", "l", "?">>)>>)

\* a message of the export: its id is its position in the messages list
Message(i, sender, reply, text) ==
    [id |-> i, from_id |-> sender.from_id, from |-> sender.from,
     reply_to_message_id |-> reply, text |-> text]

Transcripts(maxLen, senders, replies, texts) ==
    UNION { { [i \in 1..n |-> Message(i, f[i][1], f[i][2], f[i][3])] :
                f \in [1..n -> senders \X replies \X texts] } : n \in 0..maxLen }

\* rankings of answers: a reply to nothing or to the first message
RankTranscripts(maxLen) ==
    Transcripts(maxLen, {NoSender, Ann1, Bob2, Ann3}, {NoReply, 1}, {T_Plain, T_Question})

\* message volume: longer transcripts of plain messages without replies
TalkTranscripts(maxLen) ==
    Transcripts(maxLen, {Ann1, Bob2, Ann3}, {NoReply}, {T_Plain})

\* texts: every text shape, two senders
TextTranscripts(maxLen) ==
    Transcripts(maxLen, {Ann1, Bob2}, {NoReply, 1},
                {T_Plain, T_Empty, T_TwoSentences, T_Why, T_Link, T_LinkQuery})

\* replies: a reply to nothing, to the first message or to an id no message
\* has, by a sender with a name, without a name or without an id
ReplyTranscripts(maxLen) ==
    Transcripts(maxLen, {NoSender, Ann1, Deleted2}, {NoReply, 1, maxLen + 1},
                {T_Plain, T_Question})

\* __init__ (lines 17-30): chat_data is the export as read
InitFrom(transcripts) ==
    /\ chat_data \in transcripts
    /\ loaded = chat_data
    /\ last = NoCall

Init ==
    InitFrom(RankTranscripts(MaxMsgs) \cup TalkTranscripts(MaxTalkMsgs)
             \cup TextTranscripts(MaxTextMsgs) \cup ReplyTranscripts(MaxReplyMsgs))

InitReply == InitFrom(ReplyTranscripts(MaxReplyMsgs))

Spec == Init /\ [][Next]_vars

SpecReply == InitReply /\ [][Next]_vars

\* ------------------------------------------------------- notions of the claims

RankingOps == {"get_top_answering_users", "get_most_talkative_users"}

Returned(op) == last.op = op /\ last.err = "none"

\* the sender directory has a display name for the sender of message m
HasDisplayName(msgs, m) ==
    LET user_names == id_and_name(msgs)
    IN  m.from_id \in DOMAIN user_names /\ user_names[m.from_id] # None

\* the flat text of a message as loaded has a sentence with a marker
IsQuestion(m) == SomeSentenceHasMarker(Rebuilt(m).text.s)

\* message m replies, one hop, to a message of the transcript that is a question
RepliesToQuestion(msgs, m) ==
    /\ m.reply_to_message_id # NoReply
    /\ \E k \in 1..Len(msgs) : msgs[k].id = m.reply_to_message_id /\ IsQuestion(msgs[k])

\* message m replies to an id that no message of the transcript has
Dangling(msgs, m) ==
    /\ m.reply_to_message_id # NoReply
    /\ \A k \in 1..Len(msgs) : msgs[k].id # m.reply_to_message_id

\* the messages an operation is to count
Qualifies(op, msgs, m) ==
    IF op = "get_top_answering_users"
    THEN RepliesToQuestion(msgs, m) /\ HasDisplayName(msgs, m)
    ELSE HasDisplayName(msgs, m)

QualifyingAt(op, msgs) == {i \in 1..Len(msgs) : Qualifies(op, msgs, msgs[i])}

CountedIds(op, msgs) == {msgs[i].from_id : i \in QualifyingAt(op, msgs)}

CountOf(op, msgs, id) == Cardinality({i \in QualifyingAt(op, msgs) : msgs[i].from_id = id})

InSeq(x, seq) == \E k \in 1..Len(seq) : seq[k] = x

Min(a, b) == IF a < b THEN a ELSE b

\* ----------------------------------------------------------------------- C1

\* C1: when no message of the transcript qualifies for counting, each ranking
\* operation returns an empty ranking and does not raise.
C1_EmptyRankingWhenNothingCounts ==
    (last.op \in RankingOps /\ QualifyingAt(last.op, loaded) = {})
        => (last.err = "none" /\ last.ranking = <<>>)

\* ----------------------------------------------------------------------- C2

\* C2: in get_top_answering_users a reply to a question whose sender id is
\* absent or has no display name adds no credit and raises nothing.
C2_UnattributableAnswerSkipped ==
    last.op = "get_top_answering_users" =>
        \A i \in 1..Len(loaded) :
            (RepliesToQuestion(loaded, loaded[i]) /\ ~HasDisplayName(loaded, loaded[i]))
                => (~InSeq(i, last.credited) /\ last.errAt # i)

\* ----------------------------------------------------------------------- C3

\* C3: for every transcript and top_n a ranking operation returns a ranking
\* whose counts never increase and that has at most top_n entries; top_n = 0
\* gives the empty ranking, and a top_n above the number of ranked senders
\* gives all of them, without error.
C3_RankingNonIncreasingAtMostTopN ==
    last.op \in RankingOps =>
        /\ last.err = "none" =>
              /\ Len(last.ranking) <= last.arg
              /\ \A p \in 1..(Len(last.ranking) - 1) :
                     last.ranking[p].count >= last.ranking[p + 1].count
        /\ last.arg = 0 => (last.err = "none" /\ last.ranking = <<>>)
        /\ last.arg > Cardinality(CountedIds(last.op, loaded)) =>
              /\ last.err = "none"
              /\ Len(last.ranking) = Cardinality(CountedIds(last.op, loaded))

\* ----------------------------------------------------------------------- C4

\* the words the code puts in the corpus for a transcript as loaded
KeptWords(msgs) == word_tokenize(TextContent(msgs))

\* the annotated spans of the transcript whose kind the word cloud drops
DroppedRuns(msgs) ==
    UNION { {msgs[i].text.runs[k] :
                k \in {j \in 1..Len(msgs[i].text.runs) : msgs[i].text.runs[j].type \in DroppedTypes}} :
            i \in 1..Len(msgs) }

\* C4: whatever was called before on the object, generate_word_cloud puts no
\* word of a dropped span (link, hashtag, mention, phone, email) in the corpus,
\* unless kept text has the word too.
C4_DroppedSpanNeverInCorpus ==
    last.op = "generate_word_cloud" =>
        \A r \in DroppedRuns(loaded) :
            LET words == word_tokenize(r.text)
            IN  \A k \in 1..Len(words) :
                    InSeq(words[k], word_tokenize(last.text_content))
                        => InSeq(words[k], KeptWords(loaded))

\* ----------------------------------------------------------------------- C5

\* C5: classification and answer attribution leave the transcript unchanged:
\* every message's text payload is the value it had when loaded.
C5_TranscriptUnchanged ==
    \A i \in 1..Len(loaded) : chat_data[i].text = loaded[i].text

\* ----------------------------------------------------------------------- C6

\* C6: with top_n at least the number of answering senders, the count that
\* get_top_answering_users reports for a sender is the number of that sender's
\* messages that reply, one hop, to a question (a question replying to itself
\* included).
C6_ReportedCountIsAnswerCount ==
    (Returned("get_top_answering_users")
        /\ last.arg >= Cardinality(CountedIds(last.op, loaded)))
    => \A id \in CountedIds(last.op, loaded) :
           \E p \in 1..Len(last.ranking) :
               /\ last.ranking[p].key = id_and_name(loaded)[id]
               /\ last.ranking[p].count = CountOf(last.op, loaded, id)

\* ----------------------------------------------------------------------- C7

\* C7: get_top_answering_users gives no credit to a message whose
\* reply_to_message_id is the id of no message of the transcript, and raises
\* nothing while processing it.
C7_DanglingReplyNoCreditNoRaise ==
    last.op = "get_top_answering_users" =>
        \A i \in 1..Len(loaded) :
            Dangling(loaded, loaded[i]) => (~InSeq(i, last.credited) /\ last.errAt # i)

\* a call that returned a ranking with a credit, on a transcript where a message
\* without sender id replies to an id no message has
C7_Witness ==
    /\ Returned("get_top_answering_users")
    /\ last.ranking # <<>>
    /\ \E i \in 1..Len(loaded) : Dangling(loaded, loaded[i]) /\ loaded[i].from_id = None

\* ----------------------------------------------------------------------- C8

\* C8: msg_has_question returns true if some sentence of the flat text has one
\* of the four markers, and false otherwise (no sentence, or none with a marker).
C8_HasQuestionIsBoolean ==
    last.op = "msg_has_question" =>
        last.flag = (IF \E k \in 1..Len(sent_tokenize(Rebuilt(loaded[last.arg]).text.s)) :
                           HasMarker(sent_tokenize(Rebuilt(loaded[last.arg]).text.s)[k])
                     THEN "True" ELSE "False")

\* ----------------------------------------------------------------------- C9

\* the index of the first counted message whose sender shows as `name`
FirstCounted(name) ==
    CHOOSE i \in 1..Len(loaded) :
        /\ InSeq(i, last.credited) /\ id_and_name(loaded)[loaded[i].from_id] = name
        /\ \A j \in 1..(i - 1) :
               ~(InSeq(j, last.credited) /\ id_and_name(loaded)[loaded[j].from_id] = name)

\* C9: two entries of a returned ranking with equal counts are in the order in
\* which their senders were first counted in the pass.
C9_TiesInFirstCountedOrder ==
    (last.op \in RankingOps /\ last.err = "none") =>
        \A p \in 1..Len(last.ranking) : \A q \in (p + 1)..Len(last.ranking) :
            last.ranking[p].count = last.ranking[q].count
                => FirstCounted(last.ranking[p].key) < FirstCounted(last.ranking[q].key)

\* ---------------------------------------------------------------------- C10

\* C10: a returned ranking has one entry per counted sender id among the top
\* top_n: min(top_n, number of distinct counted sender ids) entries.
C10_OneEntryPerCountedSender ==
    (last.op \in RankingOps /\ last.err = "none") =>
        Len(last.ranking) = Min(last.arg, Cardinality(CountedIds(last.op, loaded)))

\* ------------------------------------------- the rankings when names differ

\* no two counted sender ids show under one display name
NamesDiffer ==
    \A a, b \in CountedIds(last.op, loaded) :
        id_and_name(loaded)[a] = id_and_name(loaded)[b] => a = b

\* A ranking that is returned for senders with different display names has one
\* entry per counted sender among the top top_n, each with that sender's count,
\* by count descending and, among equal counts, in first-counted order.
RankingWhenNamesDiffer ==
    (last.op \in RankingOps /\ last.err = "none" /\ NamesDiffer) =>
        /\ Len(last.ranking) = Min(last.arg, Cardinality(CountedIds(last.op, loaded)))
        /\ \A p \in 1..Len(last.ranking) :
               \E id \in CountedIds(last.op, loaded) :
                   /\ last.ranking[p].key = id_and_name(loaded)[id]
                   /\ last.ranking[p].count = CountOf(last.op, loaded, id)
        /\ \A p \in 1..Len(last.ranking) : \A q \in (p + 1)..Len(last.ranking) :
               \/ last.ranking[p].count > last.ranking[q].count
               \/ /\ last.ranking[p].count = last.ranking[q].count
                  /\ FirstCounted(last.ranking[p].key) < FirstCounted(last.ranking[q].key)

====
